---- MODULE Spec2Model ----
(***************************************************************************)
(* A model of src/tools.py: the paginated lister (get_object_list), the    *)
(* date filters (filter_objects, filter_prefixes), the JSON-lines decoder  *)
(* (get_jsons_from_stream / get_jsons_from_object), the record splitter    *)
(* (split_record) and the ingestion loop (process_file).                   *)
(*                                                                         *)
(* Each component has its own specification: its Init draws the inputs     *)
(* from bounded sets and leaves the other components idle.                 *)
(***************************************************************************)
EXTENDS Integers, Sequences, FiniteSets, TLC

VARIABLES
    \* ---- split_record ----
    record,      \* the dict object the caller passes (mutable, shared with the callee)
    arg,         \* ghost: the value of that dict when the caller first passed it
    out,         \* what the last call returned: [station, measurement, ext]
    prev,        \* what the call before the last returned
    calls,       \* number of calls made on the dict
    \* ---- get_object_list ----
    pages,       \* the listing as the store serves it: page i answers request i
    lpc,         \* position in get_object_list
    result,      \* the last response
    ret,         \* accumulated Contents
    prefixes,    \* accumulated prefixes
    requests,    \* ghost: the ContinuationToken of every request issued, in order
    \* ---- filter_objects ----
    all_objects, start_date, end_date, fo_pc, filtered, refiltered,
    \* ---- filter_prefixes ----
    fp_prefixes, fp_start, fp_end, fp_pc, fp_out,
    \* ---- get_jsons_from_object / process_file ----
    lines,       \* the object's text, as the sequence of its newline-separated lines
    object_name, \* "plain" or "gz": whether the key ends with .gz
    gen,         \* state of the generator object
    body,        \* state of the body stream
    generator,   \* the lines the generator's for loop has still to take
    yielded,     \* ghost: every value the generator has yielded, in order
    ppc,         \* position in process_file
    records,     \* process_file's counter
    dao_calls,   \* ghost: log of the calls made on the two stores
    error        \* the exception process_file ended with, "none" if none

splitVars == <<record, arg, out, prev, calls>>
listVars == <<pages, lpc, result, ret, prefixes, requests>>
foVars == <<all_objects, start_date, end_date, fo_pc, filtered, refiltered>>
fpVars == <<fp_prefixes, fp_start, fp_end, fp_pc, fp_out>>
ingestVars == <<lines, object_name, gen, body, generator, yielded,
                ppc, records, dao_calls, error>>
vars == <<splitVars, listVars, foVars, fpVars, ingestVars>>

-----------------------------------------------------------------------------
(* Bounds of the model *)

MaxCalls == 2
MaxPages == 3
MaxObjects == 3
MaxPrefixes == 2
MaxLines == 3

-----------------------------------------------------------------------------
(* JSON values, as json.loads builds them *)

Null == [t |-> "null"]
Str(s) == [t |-> "str", s |-> s]
Num(s) == [t |-> "num", s |-> s]
Bool(s) == [t |-> "bool", s |-> s]
Obj(f) == [t |-> "obj", f |-> f]

EmptyDict == [k \in {} |-> Null]

\* d[k] = v on a Python dict
Put(d, k, v) == [x \in (DOMAIN d) \cup {k} |-> IF x = k THEN v ELSE d[x]]

\* {k: v for k, v in d.items() if k in ks}
Restrict(d, ks) == [x \in (DOMAIN d) \cap ks |-> d[x]]

-----------------------------------------------------------------------------
(* split_record *)

DefaultCoordinates == Obj([latitude |-> Num("0.0"), longitude |-> Num("0.0")])
EmptyString == Str("")

mes_keys == {"parameter", "value", "unit", "averagingPeriod", "date", "sourceName"}
stat_keys == {"location", "city", "coordinates", "country", "sourceName"}

\* A faulty variant: the "is None" test of lines 157-158 is missing
Defaulted_NoNullCheck(d) ==
    LET d1 == IF "coordinates" \notin DOMAIN d
              THEN Put(d, "coordinates", DefaultCoordinates) ELSE d
    IN  IF "averagingPeriod" \notin DOMAIN d1
        THEN Put(d1, "averagingPeriod", EmptyString) ELSE d1

\* A faulty variant: averagingPeriod is not defaulted (lines 160-161 missing)
Defaulted_NoAveragingPeriod(d) ==
    LET d1 == IF "coordinates" \notin DOMAIN d
              THEN Put(d, "coordinates", DefaultCoordinates) ELSE d
    IN  IF d1["coordinates"] = Null
        THEN Put(d1, "coordinates", DefaultCoordinates) ELSE d1

\* The dict after lines 154-161 have run on it (the assignments are made on
\* the caller's dict object itself).
Defaulted(d) ==
    LET d1 == IF "coordinates" \notin DOMAIN d
              THEN Put(d, "coordinates", DefaultCoordinates) ELSE d
        d2 == IF d1["coordinates"] = Null
              THEN Put(d1, "coordinates", DefaultCoordinates) ELSE d1
    IN  IF "averagingPeriod" \notin DOMAIN d2
        THEN Put(d2, "averagingPeriod", EmptyString) ELSE d2

\* A faulty variant: ext leaves out the measurement keys only
Projections_ExtKeepsStation(d) ==
    [station     |-> Restrict(d, stat_keys),
     measurement |-> Restrict(d, mes_keys),
     ext         |-> Restrict(d, (DOMAIN d) \ mes_keys)]

\* Lines 163-171: the three comprehensions over the defaulted dict.
Projections(d) ==
    [station     |-> Restrict(d, stat_keys),
     measurement |-> Restrict(d, mes_keys),
     ext         |-> Restrict(d, (DOMAIN d) \ (mes_keys \cup stat_keys))]

\* What split_record returns for a dict.
split_record(d) == Projections(Defaulted(d))

\* The keys the model draws records over, and a sample value for each.
SampleKeys == {"coordinates", "averagingPeriod", "parameter", "sourceName", "city", "mobile"}

SampleValue(k) ==
    CASE k = "coordinates"     -> Obj([latitude |-> Num("23.79"), longitude |-> Num("90.42")])
      [] k = "averagingPeriod" -> Obj([value |-> Num("1"), unit |-> Str("hours")])
      [] k = "parameter"       -> Str("pm25")
      [] k = "sourceName"      -> Str("StateAir_Dhaka")
      [] k = "city"            -> Str("Dhaka")
      [] k = "mobile"          -> Bool("false")
      [] OTHER                 -> Str(k)

\* A dict with keys S, of which those in N hold null.
MkRecord(S, N) == [k \in S |-> IF k \in N THEN Null ELSE SampleValue(k)]

RawRecords == {MkRecord(S, N) : <<S, N>> \in {p \in (SUBSET SampleKeys) \X (SUBSET SampleKeys) : p[2] \subseteq p[1]}}

NoOutput == [station |-> EmptyDict, measurement |-> EmptyDict, ext |-> EmptyDict]

SplitIdle ==
    /\ record = EmptyDict /\ arg = EmptyDict
    /\ out = NoOutput /\ prev = NoOutput
    /\ calls = -1

InitSplit ==
    /\ record \in RawRecords
    /\ arg = record
    /\ out = NoOutput /\ prev = NoOutput
    /\ calls = 0

\* The caller calls split_record(record) on its dict.
Split ==
    /\ calls >= 0 /\ calls < MaxCalls
    /\ record' = Defaulted(record)
    /\ out' = split_record(record)
    /\ prev' = out
    /\ calls' = calls + 1
    /\ UNCHANGED arg
    /\ UNCHANGED <<listVars, foVars, fpVars, ingestVars>>

-----------------------------------------------------------------------------
(* get_object_list *)

NoToken == 0

\* A response of list_objects_v2: a dict whose keys are `keys`.
Page(keys, contents, common, truncated, token) ==
    [keys |-> keys, Contents |-> contents, CommonPrefixes |-> common,
     IsTruncated |-> truncated, NextContinuationToken |-> token]

ContentsChoices == {<<>>, <<"a">>, <<"b", "a">>}
CommonChoices == {<<>>, <<[Prefix |-> "p/"]>>, <<[Prefix |-> "q/"], [Prefix |-> "p/"]>>}

\* Page i of n: truncated and carrying the token of page i+1 unless it is the last.
\* An empty choice stands for the key being absent from the response.
PageOf(i, n, c, p) ==
    Page({"IsTruncated"} \cup (IF c # <<>> THEN {"Contents"} ELSE {})
                         \cup (IF p # <<>> THEN {"CommonPrefixes"} ELSE {})
                         \cup (IF i < n THEN {"NextContinuationToken"} ELSE {}),
         c, p, i < n, IF i < n THEN i + 1 ELSE NoToken)

Listings ==
    UNION {{[i \in 1..n |-> PageOf(i, n, cs[i], ps[i])] :
              <<cs, ps>> \in [1..n -> ContentsChoices] \X [1..n -> CommonChoices]} :
           n \in 1..MaxPages}

\* client.list_objects_v2: the first request gets page 1, a request carrying
\* a token gets the page that token names.
list_objects_v2(token) == IF token = NoToken THEN pages[1] ELSE pages[token]

NoPage == Page({}, <<>>, <<>>, FALSE, NoToken)

\* list(i['Prefix'] for i in result['CommonPrefixes'])
PrefixList(common) == [i \in 1..Len(common) |-> common[i].Prefix]

\* A faulty variant: the CommonPrefixes of a response are not accumulated
Accumulate_NoPrefixes(res, acc) ==
    [ret      |-> IF "Contents" \in res.keys THEN acc.ret \o res.Contents ELSE acc.ret,
     prefixes |-> acc.prefixes]

\* Lines 32-36 (and 23-27): add a response's Contents and CommonPrefixes.
Accumulate(res, acc) ==
    [ret      |-> IF "Contents" \in res.keys THEN acc.ret \o res.Contents ELSE acc.ret,
     prefixes |-> IF "CommonPrefixes" \in res.keys
                  THEN acc.prefixes \o PrefixList(res.CommonPrefixes) ELSE acc.prefixes]

ListIdle ==
    /\ pages = <<>> /\ lpc = "idle" /\ result = NoPage
    /\ ret = <<>> /\ prefixes = <<>> /\ requests = <<>>

InitList ==
    /\ pages \in Listings
    /\ lpc = "start" /\ result = NoPage
    /\ ret = <<>> /\ prefixes = <<>> /\ requests = <<>>

\* Lines 20-27: the first request and its accumulation.
ListFirst ==
    /\ lpc = "start"
    /\ LET res == list_objects_v2(NoToken)
           acc == Accumulate(res, [ret |-> <<>>, prefixes |-> <<>>])
       IN  /\ result' = res
           /\ ret' = acc.ret
           /\ prefixes' = acc.prefixes
    /\ requests' = <<NoToken>>
    /\ lpc' = "loop"
    /\ UNCHANGED pages
    /\ UNCHANGED <<splitVars, foVars, fpVars, ingestVars>>

\* Lines 29-36: one iteration of the while loop.
ListNext ==
    /\ lpc = "loop"
    /\ result.IsTruncated
    /\ LET token == result.NextContinuationToken
           res == list_objects_v2(token)
           acc == Accumulate(res, [ret |-> ret, prefixes |-> prefixes])
       IN  /\ result' = res
           /\ ret' = acc.ret
           /\ prefixes' = acc.prefixes
           /\ requests' = Append(requests, token)
    /\ UNCHANGED <<pages, lpc>>
    /\ UNCHANGED <<splitVars, foVars, fpVars, ingestVars>>

\* Line 38: the loop condition is false and the function returns.
ListReturn ==
    /\ lpc = "loop"
    /\ ~result.IsTruncated
    /\ lpc' = "done"
    /\ UNCHANGED <<pages, result, ret, prefixes, requests>>
    /\ UNCHANGED <<splitVars, foVars, fpVars, ingestVars>>

-----------------------------------------------------------------------------
(* Datetimes: wall is the clock reading, aware says whether a tzinfo is     *)
(* attached and off is its UTC offset. The unit is immaterial.              *)

Naive(w) == [wall |-> w, aware |-> FALSE, off |-> 0]
Aware(w, o) == [wall |-> w, aware |-> TRUE, off |-> o]

\* pytz.utc.localize(d): attach UTC to a naive datetime, the reading unchanged
localize(d) == Aware(d.wall, 0)

\* a <= b on datetimes of the same kind: two aware ones compare as instants
DtLe(a, b) == IF a.aware THEN a.wall - a.off <= b.wall - b.off ELSE a.wall <= b.wall

\* a < b
DtLt(a, b) == IF a.aware THEN a.wall - a.off < b.wall - b.off ELSE a.wall < b.wall

-----------------------------------------------------------------------------
(* filter_objects *)

\* A faulty variant: the upper bound is exclusive
filter_objects_ExclusiveEnd(objs, s, e) ==
    LET s1 == IF ~s.aware THEN localize(s) ELSE s
        e1 == IF ~e.aware THEN localize(e) ELSE e
    IN  SelectSeq(objs, LAMBDA x : DtLe(s1, x.LastModified) /\ DtLt(x.LastModified, e1))

\* Lines 67-74, the generator read to its end.
filter_objects(objs, s, e) ==
    LET s1 == IF ~s.aware THEN localize(s) ELSE s
        e1 == IF ~e.aware THEN localize(e) ELSE e
    IN  SelectSeq(objs, LAMBDA x : DtLe(s1, x.LastModified) /\ DtLe(x.LastModified, e1))

ObjectSamples ==
    {[Key |-> "a", LastModified |-> Aware(1, 0)],
     [Key |-> "b", LastModified |-> Aware(2, 0)],
     [Key |-> "c", LastModified |-> Aware(3, 0)],
     [Key |-> "d", LastModified |-> Aware(2, 0)]}

StartSamples == {Naive(1), Naive(2), Aware(3, 1), Naive(3)}
EndSamples == {Naive(2), Naive(3), Aware(3, 1)}

SeqsUpTo(S, n) == UNION {[1..k -> S] : k \in 0..n}

FoIdle ==
    /\ all_objects = <<>> /\ start_date = Naive(0) /\ end_date = Naive(0)
    /\ fo_pc = "idle" /\ filtered = <<>> /\ refiltered = <<>>

InitFilterObjects ==
    /\ all_objects \in SeqsUpTo(ObjectSamples, MaxObjects)
    /\ start_date \in StartSamples
    /\ end_date \in EndSamples
    /\ fo_pc = "start" /\ filtered = <<>> /\ refiltered = <<>>

\* list(filter_objects(all_objects, start_date, end_date))
FilterObjects ==
    /\ fo_pc = "start"
    /\ filtered' = filter_objects(all_objects, start_date, end_date)
    /\ fo_pc' = "filtered"
    /\ UNCHANGED <<all_objects, start_date, end_date, refiltered>>
    /\ UNCHANGED <<splitVars, listVars, fpVars, ingestVars>>

\* the result filtered again with the same bounds
RefilterObjects ==
    /\ fo_pc = "filtered"
    /\ refiltered' = filter_objects(filtered, start_date, end_date)
    /\ fo_pc' = "refiltered"
    /\ UNCHANGED <<all_objects, start_date, end_date, filtered>>
    /\ UNCHANGED <<splitVars, listVars, fpVars, ingestVars>>

-----------------------------------------------------------------------------
(* filter_prefixes *)

(* A prefix string is modelled as the sequence of its '/'-separated          *)
(* components (a trailing '/' gives a last, empty component). A component    *)
(* is either a name or a string of the shape dddd-dd-dd, of which the three  *)
(* digit groups are kept as numbers.                                         *)

Name(s) == [shaped |-> FALSE, text |-> s, y |-> 0, m |-> 0, d |-> 0]
Shaped(y, m, d) == [shaped |-> TRUE, text |-> "", y |-> y, m |-> m, d |-> d]

\* patt.search(x): the positions of a dddd-dd-dd component that has a '/'
\* before and a '/' after it
Matches(x) == {i \in 1..Len(x) : 1 < i /\ i < Len(x) /\ x[i].shaped}

\* patt.search(x).group(1): '.*' is greedy, so the last such component
Group1(x) == x[CHOOSE i \in Matches(x) : \A j \in Matches(x) : j <= i]

IsLeap(y) == (y % 4 = 0 /\ y % 100 # 0) \/ y % 400 = 0

DaysInMonth(y, m) ==
    IF m = 2 THEN (IF IsLeap(y) THEN 29 ELSE 28)
    ELSE IF m \in {4, 6, 9, 11} THEN 30 ELSE 31

\* parser.parse accepts a dddd-dd-dd string as year-month-day and raises
\* ValueError when that is no calendar date
IsCalendarDate(c) == c.y >= 1 /\ c.m \in 1..12 /\ c.d >= 1 /\ c.d <= DaysInMonth(c.y, c.m)

\* the naive datetime (midnight) parser.parse returns, as a day number that
\* orders as the calendar does
parse(c) == Naive(c.y * 10000 + c.m * 100 + c.d)

Day(y, m, d) == Naive(y * 10000 + m * 100 + d)

\* Lines 78-79, the generator read until it ends or raises: out is what it
\* yielded, raised whether it ended by raising out of parser.parse.
RECURSIVE filter_prefixes(_, _, _)
filter_prefixes(ps, s, e) ==
    IF ps = <<>> THEN [out |-> <<>>, raised |-> FALSE]
    ELSE LET x == Head(ps)
         IN  IF Matches(x) = {} THEN filter_prefixes(Tail(ps), s, e)
             ELSE IF ~IsCalendarDate(Group1(x)) THEN [out |-> <<>>, raised |-> TRUE]
             ELSE LET rest == filter_prefixes(Tail(ps), s, e)
                  IN  IF DtLe(s, parse(Group1(x))) /\ DtLe(parse(Group1(x)), e)
                      THEN [out |-> <<x>> \o rest.out, raised |-> rest.raised]
                      ELSE rest

PrefixSamples ==
    {<<Name("realtime"), Shaped(2018, 6, 6), Name("")>>,      \* realtime/2018-06-06/
     <<Name("realtime"), Shaped(2018, 6, 8), Name("")>>,      \* realtime/2018-06-08/
     <<Name("realtime"), Name("")>>,                          \* realtime/
     <<Name("realtime"), Shaped(9999, 99, 99), Name("")>>,    \* realtime/9999-99-99/
     <<Shaped(2018, 6, 6), Name("")>>,                        \* 2018-06-06/
     <<Name("realtime"), Shaped(2018, 6, 6)>>,                \* realtime/2018-06-06
     <<Name("a"), Shaped(2018, 6, 8), Shaped(2018, 6, 6), Name("")>>}  \* a/2018-06-08/2018-06-06/

DaySamples == {Day(2018, 6, 5), Day(2018, 6, 6), Day(2018, 6, 7), Day(2018, 6, 9)}

NoRun == [out |-> <<>>, raised |-> FALSE]

FpIdle ==
    /\ fp_prefixes = <<>> /\ fp_start = Naive(0) /\ fp_end = Naive(0)
    /\ fp_pc = "idle" /\ fp_out = NoRun

InitFilterPrefixes ==
    /\ fp_prefixes \in SeqsUpTo(PrefixSamples, MaxPrefixes)
    /\ fp_start \in DaySamples
    /\ fp_end \in DaySamples
    /\ fp_pc = "start" /\ fp_out = NoRun

\* list(filter_prefixes(prefixes, start_date, end_date))
FilterPrefixes ==
    /\ fp_pc = "start"
    /\ fp_out' = filter_prefixes(fp_prefixes, fp_start, fp_end)
    /\ fp_pc' = "done"
    /\ UNCHANGED <<fp_prefixes, fp_start, fp_end>>
    /\ UNCHANGED <<splitVars, listVars, foVars, ingestVars>>

-----------------------------------------------------------------------------
(* The text of an object: a sequence of tokens *)

Value(v) == [tok |-> "value", v |-> v]   \* the text of one JSON value
Garbage == [tok |-> "garbage"]           \* text that is no JSON
CR == [tok |-> "cr"]                     \* a carriage return
NL == [tok |-> "nl"]                     \* a newline
BadByte == [tok |-> "badbyte"]           \* a byte sequence that is not UTF-8

\* the lines joined by newlines
RECURSIVE JoinLines(_)
JoinLines(ls) ==
    IF ls = <<>> THEN <<>>
    ELSE IF Len(ls) = 1 THEN ls[1]
    ELSE ls[1] \o <<NL>> \o JoinLines(Tail(ls))

\* reader.decode(...) raises UnicodeDecodeError on text that is not UTF-8
Decodable(text) == \A i \in 1..Len(text) : text[i] # BadByte

\* str.split('\n'): the pieces between the newlines, the last one included
\* even when it is empty
RECURSIVE SplitNL(_, _)
SplitNL(text, cur) ==
    IF text = <<>> THEN <<cur>>
    ELSE IF Head(text) = NL THEN <<cur>> \o SplitNL(Tail(text), <<>>)
    ELSE SplitNL(Tail(text), Append(cur, Head(text)))

\* iterating a codecs.StreamReader: readline(keepends=True) cuts the text as
\* str.splitlines does, after '\n', '\r' and '\r\n', each line keeping its
\* line ending; an empty rest gives no further line
RECURSIVE ReadLines(_, _)
ReadLines(text, cur) ==
    IF text = <<>> THEN (IF cur = <<>> THEN <<>> ELSE <<cur>>)
    ELSE IF Head(text) = NL THEN <<Append(cur, NL)>> \o ReadLines(Tail(text), <<>>)
    ELSE IF Head(text) = CR
         THEN IF Len(text) > 1 /\ text[2] = NL
              THEN <<cur \o <<CR, NL>> >> \o ReadLines(Tail(Tail(text)), <<>>)
              ELSE <<Append(cur, CR)>> \o ReadLines(Tail(text), <<>>)
    ELSE ReadLines(Tail(text), Append(cur, Head(text)))

\* json.loads(line): whitespace (carriage returns and newlines among it) may
\* surround the one value; anything else raises
NonBlank(line) == SelectSeq(line, LAMBDA c : c # CR /\ c # NL)
Parses(line) == Len(NonBlank(line)) = 1 /\ NonBlank(line)[1].tok = "value"
loads(line) == NonBlank(line)[1].v

\* Lines 111-114: the iterable the for loop runs over
LinesOf(text, name) == IF name = "gz" THEN SplitNL(text, <<>>) ELSE ReadLines(text, <<>>)

\* Lines 116-121 from the top of the for loop: lines that fail to parse are
\* passed over; the loop stops at the first line that parses (a yield), at a
\* line the reader cannot decode (UnicodeDecodeError out of the for statement),
\* or at the end of the lines.
RECURSIVE Advance(_)
Advance(rem) ==
    IF rem = <<>> THEN [kind |-> "end", v |-> Null, rem |-> <<>>]
    ELSE IF ~Decodable(Head(rem)) THEN [kind |-> "raise", v |-> Null, rem |-> <<>>]
    ELSE IF Parses(Head(rem)) THEN [kind |-> "yield", v |-> loads(Head(rem)), rem |-> Tail(rem)]
    ELSE Advance(Tail(rem))

\* The incremental reader decodes a chunk at a time: a chunk may reach past
\* the line asked for, and the reader then raises for a bad byte further on.
RECURSIVE Flatten(_)
Flatten(ls) == IF ls = <<>> THEN <<>> ELSE Head(ls) \o Flatten(Tail(ls))

Outcomes(rem, name) ==
    {Advance(rem)} \cup
    (IF name # "gz" /\ ~Decodable(Flatten(rem))
     THEN {[kind |-> "raise", v |-> Null, rem |-> <<>>]} ELSE {})

-----------------------------------------------------------------------------
(* Sample records and lines *)

DateOf(u) == Obj([utc |-> Str(u), local |-> Str("local")])

\* a full record
R1 == Obj([date |-> DateOf("2018-06-06T23:00:00.000Z"), parameter |-> Str("pm25"),
           value |-> Num("27"), unit |-> Str("ug/m3"),
           averagingPeriod |-> SampleValue("averagingPeriod"),
           city |-> Str("Dhaka"), coordinates |-> SampleValue("coordinates"),
           sourceName |-> Str("StateAir_Dhaka"), mobile |-> Bool("false")])

\* a record without coordinates and averagingPeriod
R2 == Obj([date |-> DateOf("2018-06-07T00:00:00.000Z"), parameter |-> Str("o3"),
           value |-> Num("3"), unit |-> Str("ppm"),
           city |-> Str("Delhi"), sourceName |-> Str("CPCB")])

\* a record without parameter
R3 == Obj([date |-> DateOf("2018-06-08T00:00:00.000Z"),
           value |-> Num("5"), unit |-> Str("ppm"), sourceName |-> Str("CPCB")])

LineSamples ==
    {<<Value(R1)>>, <<Value(R2)>>, <<Value(R3)>>, <<Value(Num("42"))>>,
     <<Garbage>>, <<>>, <<Value(R1), CR, Value(R2)>>, <<BadByte>>}

StationIds == {"s1", "s2"}

-----------------------------------------------------------------------------
(* get_jsons_from_object, consumed by process_file *)

IngestIdle ==
    /\ lines = <<>> /\ object_name = "plain"
    /\ gen = "idle" /\ body = "unopened" /\ generator = <<>> /\ yielded = <<>>
    /\ ppc = "idle" /\ records = 0 /\ dao_calls = <<>> /\ error = "none"

InitIngest ==
    /\ lines \in SeqsUpTo(LineSamples, MaxLines) \ {<<>>}
    /\ object_name \in {"plain", "gz"}
    /\ gen = "created" /\ body = "unopened" /\ generator = <<>> /\ yielded = <<>>
    /\ ppc = "loop" /\ records = 0 /\ dao_calls = <<>> /\ error = "none"

\* measurement['parameter'], ..., measurement['date']['utc'] can all be read
Readable(measurement) ==
    /\ {"parameter", "value", "unit", "averagingPeriod", "date"} \subseteq DOMAIN measurement
    /\ measurement["date"].t = "obj"
    /\ "utc" \in DOMAIN measurement["date"].f

StationCall(station, id) == [op |-> "store_from_json", station |-> station, returned |-> id]

MeasurementCall(id, measurement) ==
    [op |-> "store", station_id |-> id, parameter |-> measurement["parameter"],
     value |-> measurement["value"], unit |-> measurement["unit"],
     averagingPeriod |-> measurement["averagingPeriod"],
     date |-> measurement["date"].f["utc"]]

\* Lines 182-188, the body of process_file's loop for one yielded value.
\* It ends the iteration normally, or process_file with an exception.
LoopBody(v) ==
    IF v.t # "obj"
    THEN \* split_record cannot index the value
         /\ ppc' = "raised" /\ error' = "TypeError"
         /\ UNCHANGED <<records, dao_calls>>
    ELSE LET sp == split_record(v.f)
         IN  \/ \* station_dao.store_from_json raises
                /\ ppc' = "raised" /\ error' = "StoreError"
                /\ UNCHANGED <<records, dao_calls>>
             \/ \E id \in StationIds :
                  IF ~Readable(sp.measurement)
                  THEN \* the arguments of mes_dao.store cannot be read
                       /\ ppc' = "raised" /\ error' = "KeyError"
                       /\ dao_calls' = Append(dao_calls, StationCall(sp.station, id))
                       /\ UNCHANGED records
                  ELSE \/ \* mes_dao.store raises
                          /\ ppc' = "raised" /\ error' = "StoreError"
                          /\ dao_calls' = Append(dao_calls, StationCall(sp.station, id))
                          /\ UNCHANGED records
                       \/ /\ dao_calls' = dao_calls \o <<StationCall(sp.station, id),
                                                         MeasurementCall(id, sp.measurement)>>
                          /\ records' = records + 1
                          /\ UNCHANGED <<ppc, error>>

\* The generator runs from where it stands to its next yield, its end or an
\* exception, and process_file's loop takes what comes out. The body is open
\* while the generator's loop runs.
Deliver(o) ==
    CASE o.kind = "yield" ->
           /\ gen' = "suspended" /\ generator' = o.rem
           /\ yielded' = Append(yielded, o.v)
           /\ body' = "open"
           /\ LoopBody(o.v)
      [] o.kind = "end" ->
           \* line 124, then StopIteration ends the for loop: line 190
           /\ gen' = "exhausted" /\ generator' = <<>> /\ body' = "closed"
           /\ ppc' = "returned"
           /\ UNCHANGED <<yielded, records, dao_calls, error>>
      [] OTHER ->
           /\ gen' = "raised" /\ generator' = <<>> /\ body' = "open"
           /\ ppc' = "raised" /\ error' = "UnicodeDecodeError"
           /\ UNCHANGED <<yielded, records, dao_calls>>

\* The first next() of process_file's for loop: lines 106-114 run, then the
\* generator's loop to its first stop.
ProcessFirst ==
    /\ ppc = "loop" /\ gen = "created"
    /\ LET text == JoinLines(lines)
       IN  IF object_name = "gz" /\ ~Decodable(text)
           THEN \* line 112 raises with the body open
                /\ gen' = "raised" /\ body' = "open" /\ generator' = <<>>
                /\ ppc' = "raised" /\ error' = "UnicodeDecodeError"
                /\ UNCHANGED <<yielded, records, dao_calls>>
           ELSE \E o \in Outcomes(LinesOf(text, object_name), object_name) : Deliver(o)
    /\ UNCHANGED <<lines, object_name>>
    /\ UNCHANGED <<splitVars, listVars, foVars, fpVars>>

\* A later next() of the for loop.
ProcessNext ==
    /\ ppc = "loop" /\ gen = "suspended"
    /\ \E o \in Outcomes(generator, object_name) : Deliver(o)
    /\ UNCHANGED <<lines, object_name>>
    /\ UNCHANGED <<splitVars, listVars, foVars, fpVars>>

\* process_file has ended with an exception and the suspended generator is
\* finalised: GeneratorExit is thrown in at the yield of line 118, where the
\* bare except of line 119 catches it, and the for loop goes on. If it comes
\* to another yield the finaliser gives up (RuntimeError: generator ignored
\* GeneratorExit) and the frame is dropped where it stands; if it comes to
\* the end, line 124 runs.
Finalise ==
    /\ ppc = "raised" /\ gen = "suspended"
    /\ \E o \in Outcomes(generator, object_name) :
         /\ gen' = CASE o.kind = "yield" -> "discarded"
                     [] o.kind = "end" -> "finalised"
                     [] OTHER -> "raised"
         /\ body' = IF o.kind = "end" THEN "closed" ELSE body
    /\ generator' = <<>>
    /\ UNCHANGED <<lines, object_name, yielded, ppc, records, dao_calls, error>>
    /\ UNCHANGED <<splitVars, listVars, foVars, fpVars>>

-----------------------------------------------------------------------------
(* The specification: a run exercises one component, the others idle *)

Init ==
    \/ InitSplit /\ ListIdle /\ FoIdle /\ FpIdle /\ IngestIdle
    \/ SplitIdle /\ InitList /\ FoIdle /\ FpIdle /\ IngestIdle
    \/ SplitIdle /\ ListIdle /\ InitFilterObjects /\ FpIdle /\ IngestIdle
    \/ SplitIdle /\ ListIdle /\ FoIdle /\ InitFilterPrefixes /\ IngestIdle
    \/ SplitIdle /\ ListIdle /\ FoIdle /\ FpIdle /\ InitIngest

Next ==
    \/ Split
    \/ ListFirst \/ ListNext \/ ListReturn
    \/ FilterObjects \/ RefilterObjects
    \/ FilterPrefixes
    \/ ProcessFirst \/ ProcessNext \/ Finalise

Spec == Init /\ [][Next]_vars

-----------------------------------------------------------------------------
(* get_object_list: properties *)

RECURSIVE AllContents(_)
AllContents(ps) ==
    IF ps = <<>> THEN <<>>
    ELSE (IF "Contents" \in Head(ps).keys THEN Head(ps).Contents ELSE <<>>)
         \o AllContents(Tail(ps))

RECURSIVE AllCommonPrefixes(_)
AllCommonPrefixes(ps) ==
    IF ps = <<>> THEN <<>>
    ELSE (IF "CommonPrefixes" \in Head(ps).keys THEN Head(ps).CommonPrefixes ELSE <<>>)
         \o AllCommonPrefixes(Tail(ps))

\* C1: for a listing served as n pages, get_object_list never issues more
\* than n requests, and when it returns it has issued exactly n, the first
\* without a token and each later one with the token of the response before
\* it; it has stopped; ret is the concatenation of the pages' Contents in page
\* order and prefixes that of the pages' CommonPrefixes (their Prefix names).
C1_ListReturnsAllPages ==
    /\ Len(requests) <= Len(pages)
    /\ lpc = "done" =>
         /\ Len(requests) = Len(pages)
         /\ requests[1] = NoToken
         /\ \A i \in 2..Len(requests) : requests[i] = pages[i - 1].NextContinuationToken
         /\ ret = AllContents(pages)
         /\ Len(prefixes) = Len(AllCommonPrefixes(pages))
         /\ \A i \in 1..Len(prefixes) : prefixes[i] = AllCommonPrefixes(pages)[i].Prefix
         /\ ~ENABLED (ListFirst \/ ListNext \/ ListReturn)

\* C1 witness: a three-page listing has been returned, whose middle page has
\* neither Contents nor CommonPrefixes and whose outer pages deliver the same entry
C1_Witness ==
    /\ lpc = "done" /\ Len(pages) = 3
    /\ pages[2].keys = {"IsTruncated", "NextContinuationToken"}
    /\ pages[1].Contents = <<"a">> /\ pages[3].Contents = <<"b", "a">>
    /\ pages[3].CommonPrefixes # <<>>

-----------------------------------------------------------------------------
(* split_record: properties *)

OutputKeys == (DOMAIN out.station) \cup (DOMAIN out.measurement) \cup (DOMAIN out.ext)

\* C2: after split_record, the station has a non-null coordinates, equal to
\* {latitude: 0.0, longitude: 0.0} when the input had none or null and to the
\* input's otherwise, and the measurement has an averagingPeriod, the empty
\* string when the input had none.
C2_SplitDefaults ==
    calls >= 1 =>
      /\ "coordinates" \in DOMAIN out.station
      /\ out.station["coordinates"] # Null
      /\ out.station["coordinates"] =
           IF "coordinates" \notin DOMAIN arg \/ arg["coordinates"] = Null
           THEN [t |-> "obj", f |-> [latitude |-> Num("0.0"), longitude |-> Num("0.0")]]
           ELSE arg["coordinates"]
      /\ "averagingPeriod" \in DOMAIN out.measurement
      /\ "averagingPeriod" \notin DOMAIN arg => out.measurement["averagingPeriod"] = Str("")
      /\ "averagingPeriod" \in DOMAIN arg => out.measurement["averagingPeriod"] = arg["averagingPeriod"]

\* C2 witness: split_record has run on a record with coordinates null and no averagingPeriod
C2_Witness ==
    /\ calls = 1
    /\ "coordinates" \in DOMAIN arg /\ arg["coordinates"] = Null
    /\ "averagingPeriod" \notin DOMAIN arg

\* C3 as stated: the keys of the three outputs together are the keys of the
\* record as it was passed in.
C3_OutputKeysAreInputKeys == calls >= 1 => OutputKeys = DOMAIN arg

\* C3 amended: the keys of the three outputs together are the keys of the
\* record as it was passed in, plus coordinates and averagingPeriod.
C3_OutputKeysAreDefaultedKeys ==
    calls >= 1 => OutputKeys = (DOMAIN arg) \cup {"coordinates", "averagingPeriod"}

\* C3 witness: split_record has run on a record without coordinates that has
\* station, measurement and extension keys
C3_Witness ==
    /\ calls = 1
    /\ "coordinates" \notin DOMAIN arg /\ "averagingPeriod" \notin DOMAIN arg
    /\ {"city", "parameter", "mobile"} \subseteq DOMAIN arg

\* C4 as stated: split_record leaves the caller's record as it was passed in,
\* and a second call on it returns what the first returned.
C4_SplitLeavesArgument ==
    /\ calls >= 1 => record = arg
    /\ calls >= 2 => out = prev

\* the record as passed in with the two defaults filled in
DefaultedArg ==
    [k \in (DOMAIN arg) \cup {"coordinates", "averagingPeriod"} |->
       IF k = "coordinates" /\ (k \notin DOMAIN arg \/ arg[k] = Null)
       THEN [t |-> "obj", f |-> [latitude |-> Num("0.0"), longitude |-> Num("0.0")]]
       ELSE IF k = "averagingPeriod" /\ k \notin DOMAIN arg THEN Str("")
       ELSE arg[k]]

\* C5: every key of the defaulted record is in exactly one output, sourceName
\* in exactly the station and the measurement; the station's and the
\* measurement's keys are among their field sets, the extension's are exactly
\* the rest, and every output value is the record's value under that key.
C5_SplitPartitions ==
    calls >= 1 =>
      LET S == {"location", "city", "coordinates", "country", "sourceName"}
          M == {"parameter", "value", "unit", "averagingPeriod", "date", "sourceName"}
          In(k) == {o \in {"station", "measurement", "ext"} : k \in DOMAIN out[o]}
      IN  /\ DOMAIN out.station \subseteq S
          /\ DOMAIN out.measurement \subseteq M
          /\ DOMAIN out.ext = (DOMAIN DefaultedArg) \ (S \cup M)
          /\ (DOMAIN out.ext) \cap ((DOMAIN out.station) \cup (DOMAIN out.measurement)) = {}
          /\ \A k \in DOMAIN DefaultedArg :
               /\ In(k) # {}
               /\ k = "sourceName" => In(k) = {"station", "measurement"}
               /\ k # "sourceName" => Cardinality(In(k)) = 1
               /\ \A o \in In(k) : out[o][k] = DefaultedArg[k]
          /\ OutputKeys \subseteq DOMAIN DefaultedArg

\* C5 witness: split_record has run on a record with sourceName, a station
\* key, a measurement key and an extension key
C5_Witness ==
    /\ calls = 1
    /\ {"sourceName", "city", "parameter", "mobile"} \subseteq DOMAIN arg

-----------------------------------------------------------------------------
(* filter_objects: properties *)

\* the instant of a bound, one without timezone read as UTC
Instant(dt) == IF dt.aware THEN dt.wall - dt.off ELSE dt.wall

Kept == {i \in 1..Len(all_objects) :
           /\ Instant(start_date) <= Instant(all_objects[i].LastModified)
           /\ Instant(all_objects[i].LastModified) <= Instant(end_date)}

\* the j-th smallest member of Kept
KeptAt(j) == CHOOSE i \in Kept : Cardinality({k \in Kept : k <= i}) = j

\* C10: filter_objects yields, in the input's order, exactly the objects
\* whose LastModified lies in [start_date, end_date], and filtering its result
\* again with the same bounds yields the same sequence.
C10_FilterObjectsSubsequence ==
    /\ fo_pc \in {"filtered", "refiltered"} =>
         /\ Len(filtered) = Cardinality(Kept)
         /\ \A j \in 1..Len(filtered) : filtered[j] = all_objects[KeptAt(j)]
    /\ fo_pc = "refiltered" => refiltered = filtered

\* C10 witness: a filtering with bounds given without timezone has kept an
\* object on each bound, dropped another, and was done again
C10_Witness ==
    /\ fo_pc = "refiltered"
    /\ ~start_date.aware /\ ~end_date.aware
    /\ Len(filtered) >= 2 /\ Len(filtered) < Len(all_objects)
    /\ \E j \in 1..Len(filtered) : Instant(filtered[j].LastModified) = Instant(end_date)
    /\ \E j \in 1..Len(filtered) : Instant(filtered[j].LastModified) = Instant(start_date)

-----------------------------------------------------------------------------
(* filter_prefixes: properties *)

\* the prefixes with a dddd-dd-dd segment between slashes that is a calendar
\* date within [fp_start, fp_end]
InRangePrefix(x) ==
    /\ Matches(x) # {}
    /\ IsCalendarDate(Group1(x))
    /\ fp_start.wall <= Group1(x).y * 10000 + Group1(x).m * 100 + Group1(x).d
    /\ Group1(x).y * 10000 + Group1(x).m * 100 + Group1(x).d <= fp_end.wall

\* C9 as stated: filter_prefixes never raises, whatever the prefixes, and
\* yields in input order exactly the prefixes whose date segment is within
\* the bounds.
C9_FilterPrefixesNeverRaises ==
    fp_pc = "done" =>
      /\ ~fp_out.raised
      /\ fp_out.out = SelectSeq(fp_prefixes, InRangePrefix)

-----------------------------------------------------------------------------
(* get_jsons_from_object and process_file: properties *)

\* the values of the lines that are well-formed JSON, in order
RECURSIVE WellFormedValues(_)
WellFormedValues(ls) ==
    IF ls = <<>> THEN <<>>
    ELSE (IF Decodable(Head(ls)) /\ Parses(Head(ls)) THEN <<loads(Head(ls))>> ELSE <<>>)
         \o WellFormedValues(Tail(ls))

IsPrefixOf(a, b) == Len(a) <= Len(b) /\ \A i \in 1..Len(a) : a[i] = b[i]

\* C6 as stated: the decoder never raises to its consumer, what it has
\* yielded is at any time an initial part of the values of the well-formed
\* lines, and all of them once it is read to its end.
C6_DecodeYieldsWellFormedLines ==
    /\ gen # "raised"
    /\ IsPrefixOf(yielded, WellFormedValues(lines))
    /\ gen = "exhausted" => yielded = WellFormedValues(lines)

\* C7 as stated, for the sequences read to their end or abandoned: once the
\* generator is exhausted, or was abandoned and has been finalised, the body
\* it opened is closed.
C7_BodyClosedAtEnd ==
    gen \in {"exhausted", "finalised", "discarded"} => body = "closed"

\* a record that carries parameter, value, unit and date.utc
Complete(v) == v.t = "obj" /\ Readable(split_record(v.f).measurement)

\* C8 as stated, for objects whose well-formed lines are all complete
\* records: unless a store raises, process_file returns the number k of
\* well-formed lines after exactly k pairs of calls, in line order, the
\* measurement of each stored with the id its station's call returned.
C8_ProcessStoresEachLine ==
    LET vs == WellFormedValues(lines)
    IN  (/\ ppc \in {"returned", "raised"}
         /\ error # "StoreError"
         /\ \A i \in 1..Len(vs) : Complete(vs[i]))
        => /\ ppc = "returned"
           /\ records = Len(vs)
           /\ Len(dao_calls) = 2 * Len(vs)
           /\ \A i \in 1..Len(vs) :
                LET sp == split_record(vs[i].f)
                    st == dao_calls[2 * i - 1]
                IN  /\ st.op = "store_from_json" /\ st.station = sp.station
                    /\ dao_calls[2 * i] = MeasurementCall(st.returned, sp.measurement)

====
